---- MODULE Spec2Model ----
(***************************************************************************)
(* Model of src/bot.js: the voice-connection supervisor (connectToVC, its  *)
(* stateChange handler, the debounced rebuild timer), the session ledger   *)
(* (startSession / endSession over the sessions and user_hours tables) and *)
(* the VoiceStateUpdate handler that drives both.                          *)
(***************************************************************************)
EXTENDS Integers, Sequences, FiniteSets, TLC

\* ---------------------------------------------------------------- bounds
NumUsers == 2
NumMovers == 1
NumChannels == 2
MaxTime == 2
MaxOps == 4
MaxHandles == 2
MaxTimers == 2
MaxCalls == 2
MaxWaits == 2
MaxRanked == 22

\* ------------------------------------------------------ program constants
RebuildDelay == 5000
DisplaceDelay == 3000
TopMin == 1
TopMax == 20

Bot == 0
NoChannel == 0
VOICE_CHANNEL_ID == 1
Null == 0
NoTime == -1

Users == 1..NumUsers
Movers == {u \in Users : u <= NumMovers}
Channels == 1..NumChannels
Places == Channels \cup {NoChannel}
Times == 0..MaxTime
Handles == 1..MaxHandles
TimerIds == 1..MaxTimers
CallIds == 1..MaxCalls
FaultPoints == 0..3
Limits == (-2)..(MaxRanked + 1)

VARIABLES
  sessions,        \* table sessions: set of rows [user_id, started_at]
  user_hours,      \* table user_hours: set of rows [user_id, total_ms]
  chan,            \* channel each human member is in (NoChannel when in none)
  now,             \* Date.now()
  nowInTarget,     \* the channel last reported for the bot is VOICE_CHANNEL_ID
  attended,        \* time each human member has spent in a voice channel
  connection,      \* let connection: a handle or Null
  player,          \* let player: the player made with a handle, or Null
  connectLock,     \* let connectLock
  reconnectTimer,  \* let reconnectTimer: a timer id, or Null
  timers,          \* pending timeouts: timer id -> delay, 0 when not pending
  hstatus,         \* state.status of every connection handle
  hlisteners,      \* number of 'stateChange' listeners on every handle
  calls,           \* connectToVC invocations suspended at an await
  waits,           \* stateChange handler invocations suspended at an await
  bootpc,          \* position of the ClientReady handler
  ledgerOpen,      \* history: start of the session each user's calls left open
  ledgerSum,       \* history: sum of the floored lengths of the closed sessions
  ledgerClosed,    \* history: an endSession found and closed a session of the user
  presentSince,    \* history: time of the join event of the current presence
  totalAtJoin,     \* history: total_ms at that join event
  opCount,         \* history: number of direct ledger calls made
  contended,       \* history: an invocation was turned away during this join
  last             \* history: the step that led to this state

ledgerVars == <<sessions, user_hours>>
presenceVars == <<chan, now, nowInTarget, attended>>
vcVars == <<connection, player, connectLock, reconnectTimer, timers, hstatus,
            hlisteners, calls, waits, bootpc>>
ledgerHist == <<ledgerOpen, ledgerSum, ledgerClosed, presentSince, totalAtJoin, opCount>>
vcHist == <<contended>>
vars == <<sessions, user_hours, chan, now, nowInTarget, attended, connection, player, connectLock,
          reconnectTimer, timers, hstatus, hlisteners, calls, waits, bootpc,
          ledgerOpen, ledgerSum, ledgerClosed, presentSince, totalAtJoin,
          opCount, contended, last>>

Max(a, b) == IF a >= b THEN a ELSE b

Step(kind, id, arg, arg2, ret, flag) ==
  [kind |-> kind, id |-> id, arg |-> arg, arg2 |-> arg2, ret |-> ret, flag |-> flag,
   found |-> NoTime]

\* ================================================================ ledger

SessionRows(sess, u) == {r \in sess : r.user_id = u}
HourRows(hours, u) == {r \in hours : r.user_id = u}

\* SELECT started_at FROM sessions WHERE user_id = ?
GetSessionStmt(sess, u) == SessionRows(sess, u)

\* INSERT INTO sessions ... ON CONFLICT(user_id) DO UPDATE SET started_at = excluded.started_at
StartSessionStmtDoNothing(sess, u, t) ==
  IF SessionRows(sess, u) # {} THEN sess
  ELSE sess \cup {[user_id |-> u, started_at |-> t]}
StartSessionStmt(sess, u, t) ==
  IF SessionRows(sess, u) # {}
  THEN {IF r.user_id = u THEN [r EXCEPT !.started_at = t] ELSE r : r \in sess}
  ELSE sess \cup {[user_id |-> u, started_at |-> t]}

\* DELETE FROM sessions WHERE user_id = ?
EndSessionStmt(sess, u) == {r \in sess : r.user_id # u}

\* INSERT INTO user_hours ... ON CONFLICT(user_id) DO UPDATE SET total_ms = total_ms + excluded.total_ms
AddTimeStmtSkipZero(hours, u, delta) ==
  IF HourRows(hours, u) # {}
  THEN {IF r.user_id = u THEN [r EXCEPT !.total_ms = r.total_ms + delta] ELSE r : r \in hours}
  ELSE IF delta = 0 THEN hours
  ELSE hours \cup {[user_id |-> u, total_ms |-> delta]}
AddTimeStmtOverwrite(hours, u, delta) ==
  {r \in hours : r.user_id # u} \cup {[user_id |-> u, total_ms |-> delta]}
AddTimeStmt(hours, u, delta) ==
  IF HourRows(hours, u) # {}
  THEN {IF r.user_id = u THEN [r EXCEPT !.total_ms = r.total_ms + delta] ELSE r : r \in hours}
  ELSE hours \cup {[user_id |-> u, total_ms |-> delta]}

ExecStmt(db, stmt) ==
  IF stmt.op = "endSessionStmt"
  THEN [db EXCEPT !.sessions = EndSessionStmt(db.sessions, stmt.user_id)]
  ELSE [db EXCEPT !.user_hours = AddTimeStmt(db.user_hours, stmt.user_id, stmt.delta)]

RECURSIVE RunStmts(_, _, _)
RunStmts(db, stmts, n) ==
  IF n = 0 THEN db ELSE ExecStmt(RunStmts(db, stmts, n - 1), stmts[n])

\* db.transaction(fn)(): the statements of fn are committed together; a fault
\* (an exception or the death of the process) before the commit rolls all of
\* them back. fault = 0: none; fault = k + 1: after the k-th statement.
TransactionAutoCommit(db, stmts, fault) ==
  RunStmts(db, stmts, IF fault = 0 THEN Len(stmts) ELSE fault - 1)
Transaction(db, stmts, fault) ==
  IF fault = 0 THEN RunStmts(db, stmts, Len(stmts)) ELSE db

\* Math.max(0, when - row.started_at)
DeltaUnfloored(when, started_at) == when - started_at
Delta(when, started_at) == Max(0, when - started_at)

\* startSession(userId, when); fault: startSessionStmt.run throws
StartSession(db, u, when, fault) ==
  IF fault THEN db
  ELSE [db EXCEPT !.sessions = StartSessionStmt(db.sessions, u, when)]

\* endSession(userId, when); fault = 1: getSessionStmt.get throws, 2: fault
\* after endSessionStmt.run, 3: fault after addTimeStmt.run, before the commit
EndSessionNoGuard(db, u, when, fault) ==
  LET rows == GetSessionStmt(db.sessions, u)
      started == IF rows = {} THEN 0 ELSE (CHOOSE r \in rows : TRUE).started_at
      delta == Delta(when, started)
      stmts == <<[op |-> "endSessionStmt", user_id |-> u, delta |-> 0],
                 [op |-> "addTimeStmt", user_id |-> u, delta |-> delta]>>
  IN IF fault = 1 THEN [db |-> db, ret |-> 0, threw |-> TRUE]
     ELSE [db |-> Transaction(db, stmts, fault),
           ret |-> IF fault = 0 THEN delta ELSE 0, threw |-> fault # 0]
EndSession(db, u, when, fault) ==
  LET rows == GetSessionStmt(db.sessions, u) IN
  IF fault = 1 THEN [db |-> db, ret |-> 0, threw |-> TRUE]
  ELSE IF rows = {} THEN [db |-> db, ret |-> 0, threw |-> FALSE]
  ELSE LET row == CHOOSE r \in rows : TRUE
           delta == Delta(when, row.started_at)
           stmts == <<[op |-> "endSessionStmt", user_id |-> u, delta |-> 0],
                      [op |-> "addTimeStmt", user_id |-> u, delta |-> delta]>>
       IN [db |-> Transaction(db, stmts, fault),
           ret |-> IF fault = 0 THEN delta ELSE 0, threw |-> fault # 0]

TheDb == [sessions |-> sessions, user_hours |-> user_hours]

\* started_at of the Active Session of u, NoTime without one
StartedAt(sess, u) ==
  IF SessionRows(sess, u) = {} THEN NoTime
  ELSE (CHOOSE r \in SessionRows(sess, u) : TRUE).started_at

\* a step that ran endSession, with the session it found
EndStep(step, t) == [step EXCEPT !.found = t]

TotalMs(hours, u) ==
  IF HourRows(hours, u) = {} THEN 0 ELSE (CHOOSE r \in HourRows(hours, u) : TRUE).total_ms

\* the history of the ledger calls that completed, kept beside the tables
Hist == [open |-> ledgerOpen, sum |-> ledgerSum, closed |-> ledgerClosed]
HistStart(g, u, when) == [g EXCEPT !.open[u] = when]
HistEnd(g, u, when) ==
  IF g.open[u] = NoTime THEN g
  ELSE [g EXCEPT !.open[u] = NoTime,
                 !.sum[u] = g.sum[u] + Max(0, when - g.open[u]),
                 !.closed[u] = TRUE]

\* a direct call startSession(u, when)
StartSessionCall(u, when, fault) ==
  /\ opCount < MaxOps
  /\ LET db == StartSession(TheDb, u, when, fault)
         g == IF fault THEN Hist ELSE HistStart(Hist, u, when)
     IN /\ sessions' = db.sessions
        /\ user_hours' = db.user_hours
        /\ ledgerOpen' = g.open
        /\ ledgerSum' = g.sum
        /\ ledgerClosed' = g.closed
  /\ opCount' = opCount + 1
  /\ last' = Step("startSession", u, when, Cardinality(SessionRows(sessions, u)), 0, fault)
  /\ UNCHANGED <<presenceVars, vcVars, vcHist, presentSince, totalAtJoin>>

\* a direct call endSession(u, when)
EndSessionCall(u, when, fault) ==
  /\ opCount < MaxOps
  /\ LET r == EndSession(TheDb, u, when, fault)
         g == IF r.threw THEN Hist ELSE HistEnd(Hist, u, when)
     IN /\ sessions' = r.db.sessions
        /\ user_hours' = r.db.user_hours
        /\ ledgerOpen' = g.open
        /\ ledgerSum' = g.sum
        /\ ledgerClosed' = g.closed
        /\ last' = EndStep(Step("endSession", u, when, fault, r.ret, r.threw),
                           StartedAt(sessions, u))
  /\ opCount' = opCount + 1
  /\ UNCHANGED <<presenceVars, vcVars, vcHist, presentSince, totalAtJoin>>

\* =========================================================== leaderboard

Min(a, b) == IF a <= b THEN a ELSE b

\* the rows of highest total_ms first, n of them at most; rows of equal
\* total_ms come in an order the query does not fix
RECURSIVE TopRows(_, _)
TopRows(hours, n) ==
  IF n = 0 \/ hours = {} THEN {<<>>}
  ELSE LET best == {r \in hours : \A q \in hours : r.total_ms >= q.total_ms}
       IN UNION {{<<r>> \o rest : rest \in TopRows(hours \ {r}, n - 1)} : r \in best}

\* SELECT user_id, total_ms FROM user_hours ORDER BY total_ms DESC LIMIT ?
\* (a negative LIMIT is no limit)
GetTopStmt(hours, limit) ==
  TopRows(hours, IF limit < 0 THEN Cardinality(hours) ELSE limit)

\* Math.min(20, Math.max(1, limit))
ClampNone(limit) == limit
ClampLimit(limit) == Min(TopMax, Max(TopMin, limit))

\* renderLeaderboard(guild, limit): the rows it draws
RenderLeaderboard(limit) ==
  /\ \E rows \in GetTopStmt(user_hours, ClampLimit(limit)) :
       last' = Step("renderLeaderboard", 0, limit, 0, rows, FALSE)
  /\ UNCHANGED <<ledgerVars, presenceVars, vcVars, ledgerHist, vcHist>>

\* ==================================================== connection supervisor

LiveStatus == {"signalling", "connecting", "ready", "disconnected"}
Status == LiveStatus \cup {"unborn", "destroyed"}
WaitKinds == {"reentry", "ready"}
Targets == Handles \cup {Null}

\* the state changes the voice transport can report for a handle
TransportNext(s) ==
  CASE s = "signalling" -> {"connecting", "disconnected", "destroyed"}
    [] s = "connecting" -> {"ready", "signalling", "disconnected", "destroyed"}
    [] s = "ready" -> {"disconnected", "signalling", "connecting", "destroyed"}
    [] s = "disconnected" -> {"signalling", "connecting", "destroyed"}
    [] OTHER -> {}

Sup == [connection |-> connection, player |-> player, connectLock |-> connectLock,
        reconnectTimer |-> reconnectTimer, timers |-> timers,
        hstatus |-> hstatus, hlisteners |-> hlisteners]

SetSup(S) ==
  /\ connection' = S.connection
  /\ player' = S.player
  /\ connectLock' = S.connectLock
  /\ reconnectTimer' = S.reconnectTimer
  /\ timers' = S.timers
  /\ hstatus' = S.hstatus
  /\ hlisteners' = S.hlisteners

PendingTimers(tm) == {t \in TimerIds : tm[t] > 0}
LiveHandles(hs) == {h \in Handles : hs[h] \in LiveStatus}
UnbornHandles(hs) == {h \in Handles : hs[h] = "unborn"}
Lowest(set) == CHOOSE x \in set : \A y \in set : x <= y

\* the member whose movement events are followed where one member is enough
Walker == Lowest(Movers)

\* clearTimeout(reconnectTimer)
ClearTimeoutSkipped(tm, id) == tm
ClearTimeout(tm, id) == IF id = Null THEN tm ELSE [tm EXCEPT ![id] = 0]

\* reconnectTimer = setTimeout(connectToVC, delay)
SetTimeout(S, delay) ==
  LET free == TimerIds \ PendingTimers(S.timers)
      id == IF free = {} THEN MaxTimers ELSE Lowest(free)
  IN [S EXCEPT !.timers[id] = delay, !.reconnectTimer = id]

\* clearTimeout(reconnectTimer); reconnectTimer = setTimeout(connectToVC, delay)
ScheduleRebuild(S, delay) ==
  SetTimeout([S EXCEPT !.timers = ClearTimeout(S.timers, S.reconnectTimer)], delay)

\* the listeners of handle h run their Destroyed branch
OnDestroyed(S, h) ==
  IF S.hlisteners[h] > 0 THEN ScheduleRebuild(S, RebuildDelay) ELSE S

\* try { connection.destroy(); } catch {}   (destroy() throws on a destroyed
\* handle, and connection may be null: both are swallowed)
DestroyConnection(S) ==
  IF S.connection = Null \/ S.hstatus[S.connection] \notin LiveStatus THEN S
  ELSE OnDestroyed([S EXCEPT !.hstatus[S.connection] = "destroyed"], S.connection)

\* catch block of connectToVC's wait for Ready
ReadyTimeoutCatch(S) == [DestroyConnection(S) EXCEPT !.connection = Null]

\* catch blocks of the stateChange handler
TeardownConnectionKept(S) ==
  ScheduleRebuild(DestroyConnection(S), RebuildDelay)
TeardownUnscheduled(S) ==
  [DestroyConnection(S) EXCEPT !.connection = Null]
Teardown(S) ==
  ScheduleRebuild([DestroyConnection(S) EXCEPT !.connection = Null], RebuildDelay)

\* if (connectLock) return
LockIgnored(lock) == FALSE
LockHeld(lock) == lock

\* if (connection && connection.state?.status !== 'destroyed') return
AlreadyConnectedIgnored(S) == FALSE
AlreadyConnectedWhenReady(S) ==
  S.connection # Null /\ S.hstatus[S.connection] = "ready"
AlreadyConnected(S) ==
  S.connection # Null /\ S.hstatus[S.connection] # "destroyed"

IdleCall == [pc |-> "idle", awaited |-> Null]
FreeCalls == {c \in CallIds : calls[c].pc = "idle"}
InFlight == {c \in CallIds : calls[c].pc # "idle"}

\* connection.removeAllListeners?.('stateChange'); connection.on('stateChange', ...)
AttachObserverNone(S) == S
AttachObserver(S) ==
  [S EXCEPT !.hlisteners[S.connection] = 1]

\* connectToVC() up to its first await
InvokeConnect(S) ==
  IF LockHeld(S.connectLock)
  THEN /\ SetSup(S)
       /\ calls' = calls
       /\ contended' = TRUE
  ELSE /\ FreeCalls # {}
       /\ SetSup([S EXCEPT !.connectLock = TRUE])
       /\ calls' = [calls EXCEPT ![Lowest(FreeCalls)] = [pc |-> "fetchGuild", awaited |-> Null]]
       /\ contended' = contended

\* finally { connectLock = false }
ReturnLockKept(S, c) ==
  /\ SetSup(S)
  /\ calls' = [calls EXCEPT ![c] = IdleCall]
  /\ contended' = FALSE
Return(S, c) ==
  /\ SetSup([S EXCEPT !.connectLock = FALSE])
  /\ calls' = [calls EXCEPT ![c] = IdleCall]
  /\ contended' = FALSE

\* ------------------------------------------------------------- startup

\* the members of the voice channels; the bot may be in one (botIn)
SeedMembers(botIn) ==
  {u \in Users : chan[u] # NoChannel} \cup (IF botIn THEN {Bot} ELSE {})

\* member.user.id !== client.user.id
SeededAll(u) == TRUE
Seeded(u) == u # Bot

RECURSIVE SeedAll(_, _, _)
\* the loops of seedCurrentSessions:
\* if (member.user.id !== client.user.id) startSession(member.user.id, when)
SeedAll(db, members, when) ==
  IF members = {} THEN db
  ELSE LET u == Lowest(members)
       IN SeedAll(IF Seeded(u) THEN StartSession(db, u, when, FALSE) ELSE db,
                  members \ {u}, when)

\* client.once(ClientReady): the handler runs up to await registerCommands()
ClientReady ==
  /\ bootpc = "login"
  /\ bootpc' = "registerCommands"
  /\ last' = Step("ClientReady", 0, 0, 0, 0, FALSE)
  /\ UNCHANGED <<ledgerVars, presenceVars, ledgerHist, vcHist, connection, player,
                 connectLock, reconnectTimer, timers, hstatus, hlisteners, calls, waits>>

\* registerCommands() settles; seedCurrentSessions() runs up to its guild fetch
CommandsRegistered(ok) ==
  /\ bootpc = "registerCommands"
  /\ bootpc' = IF ok THEN "seedGuild" ELSE "aborted"
  /\ last' = Step("CommandsRegistered", 0, 0, 0, 0, ok)
  /\ UNCHANGED <<ledgerVars, presenceVars, ledgerHist, vcHist, connection, player,
                 connectLock, reconnectTimer, timers, hstatus, hlisteners, calls, waits>>

\* seedCurrentSessions: the guild fetch settles; without a guild it returns and
\* the ClientReady handler calls connectToVC()
SeedGuildFetched(ok) ==
  /\ bootpc = "seedGuild"
  /\ IF ok
     THEN /\ bootpc' = "seedChannels"
          /\ UNCHANGED <<connection, player, connectLock, reconnectTimer, timers,
                         hstatus, hlisteners, calls, contended>>
     ELSE /\ bootpc' = "running"
          /\ InvokeConnect(Sup)
  /\ last' = Step("SeedGuildFetched", 0, 0, 0, 0, ok)
  /\ UNCHANGED <<ledgerVars, presenceVars, ledgerHist, waits>>

\* seedCurrentSessions: the channels fetch settles, the members present are
\* seeded, and the ClientReady handler calls connectToVC()
SeedChannelsFetched(ok, botIn) ==
  /\ bootpc = "seedChannels"
  /\ IF ok
     THEN /\ bootpc' = "running"
          /\ LET db == SeedAll(TheDb, SeedMembers(botIn), now)
             IN /\ sessions' = db.sessions
                /\ user_hours' = db.user_hours
          /\ ledgerOpen' = [u \in Users |->
                IF u \in SeedMembers(botIn) THEN now ELSE ledgerOpen[u]]
          /\ InvokeConnect(Sup)
     ELSE /\ bootpc' = "aborted"
          /\ UNCHANGED <<ledgerVars, ledgerOpen, connection, player, connectLock,
                         reconnectTimer, timers, hstatus, hlisteners, calls, contended>>
  /\ last' = Step("SeedChannelsFetched", 0, IF ok /\ botIn THEN 1 ELSE 0, 0, 0, ok)
  /\ UNCHANGED <<presenceVars, ledgerSum, ledgerClosed, presentSince, totalAtJoin,
                 opCount, waits>>

\* ------------------------------------------------------------ connectToVC

\* a pending timeout fires: connectToVC()
TimerFire(t) ==
  /\ timers[t] > 0
  /\ InvokeConnect([Sup EXCEPT !.timers[t] = 0])
  /\ last' = Step("TimerFire", t, timers[t], 0, 0, LockHeld(connectLock))
  /\ UNCHANGED <<ledgerVars, presenceVars, ledgerHist, waits, bootpc>>

\* if (!guild) / if (!channel || channel.type !== 2): console.error(...); return
ConfigErrorRetried(S) == ScheduleRebuild(S, RebuildDelay)
ConfigError(S) == S

\* await client.guilds.fetch(GUILD_ID).catch(() => null) settles
GuildFetched(c, ok) ==
  /\ calls[c].pc = "fetchGuild"
  /\ IF ok
     THEN /\ calls' = [calls EXCEPT ![c].pc = "fetchChannel"]
          /\ UNCHANGED <<connection, player, connectLock, reconnectTimer, timers,
                         hstatus, hlisteners, contended>>
     ELSE Return(ConfigError(Sup), c)
  /\ last' = Step("GuildFetched", c, 0, 0, 0, ok)
  /\ UNCHANGED <<ledgerVars, presenceVars, ledgerHist, waits, bootpc>>

\* joinVoiceChannel, createAudioPlayer, subscribe, up to the wait for Ready
Join(S, h) ==
  [S EXCEPT !.connection = h, !.player = h, !.hstatus[h] = "signalling"]

\* await guild.channels.fetch(VOICE_CHANNEL_ID).catch(() => null) settles; the
\* invocation runs on to await entersState(connection, Ready, 20_000)
ChannelFetched(c, ok) ==
  /\ calls[c].pc = "fetchChannel"
  /\ IF ~ok
     THEN /\ Return(ConfigError(Sup), c)
          /\ last' = Step("ChannelFetched", c, Null, 0, 0, ok)
     ELSE IF AlreadyConnected(Sup)
     THEN /\ Return(Sup, c)
          /\ last' = Step("ChannelFetched", c, Null, 0, 0, ok)
     ELSE /\ UnbornHandles(hstatus) # {}
          /\ LET h == Lowest(UnbornHandles(hstatus))
             IN /\ SetSup(Join(Sup, h))
                /\ calls' = [calls EXCEPT ![c] = [pc |-> "awaitReady", awaited |-> h]]
                /\ last' = Step("ChannelFetched", c, h, 0, 0, ok)
          /\ contended' = contended
  /\ UNCHANGED <<ledgerVars, presenceVars, ledgerHist, waits, bootpc>>

\* the channel resolved and connection is not live, but joinVoiceChannel
\* throws: nothing is assigned, only the finally block runs (the rejected
\* promise ends in the process' unhandledRejection handler, which logs)
JoinThrows(c) ==
  /\ calls[c].pc = "fetchChannel"
  /\ ~AlreadyConnected(Sup)
  /\ Return(Sup, c)
  /\ last' = Step("JoinThrows", c, Null, 0, 0, contended)
  /\ UNCHANGED <<ledgerVars, presenceVars, ledgerHist, waits, bootpc>>

\* entersState(connection, Ready, 20_000) rejects: the catch block, then finally
ReadyTimeout(c) ==
  /\ calls[c].pc = "awaitReady"
  /\ Return(ReadyTimeoutCatch(Sup), c)
  /\ last' = Step("ReadyTimeout", c, calls[c].awaited, 0, 0, contended)
  /\ UNCHANGED <<ledgerVars, presenceVars, ledgerHist, waits, bootpc>>

\* ---------------------------------------------------- stateChange handler

\* the waits a state change to s of handle h resolves
Resolve(w, h, s) ==
  [k \in WaitKinds |-> [x \in Targets |->
     IF x = h /\ ( (k = "reentry" /\ s \in {"signalling", "connecting"})
                \/ (k = "ready" /\ s = "ready") )
     THEN 0 ELSE w[k][x]]]

\* the number of handler invocations suspended at an await
RECURSIVE SumOver(_, _)
SumOver(f, D) ==
  IF D = {} THEN 0
  ELSE LET d == CHOOSE e \in D : TRUE IN f[d] + SumOver(f, D \ {d})

Suspended(w) == SumOver([k \in WaitKinds |-> SumOver(w[k], Targets)], WaitKinds)

\* the wait a listener of the handle starts on a state change to s
WaitKind(s) ==
  CASE s = "disconnected" -> "reentry"
    [] s \in {"signalling", "connecting"} -> "ready"
    [] OTHER -> "none"

AwaitingReady(h) == {c \in CallIds : calls[c].pc = "awaitReady" /\ calls[c].awaited = h}

\* the transport moves handle h to status s: the handle's listeners run (up to
\* their await), and what waited for s resumes: handler waits end, and a
\* connectToVC waiting for Ready runs to its end
TransportChange(h, s) ==
  /\ s \in TransportNext(hstatus[h])
  /\ LET S0 == [Sup EXCEPT !.hstatus[h] = s]
         heard == hlisteners[h] > 0
         S1 == IF heard /\ s = "destroyed" THEN ScheduleRebuild(S0, RebuildDelay) ELSE S0
         w0 == Resolve(waits, h, s)
         k == WaitKind(s)
         joins == IF s = "ready" THEN AwaitingReady(h) ELSE {}
     IN /\ IF heard /\ k # "none"
           THEN /\ Suspended(w0) < MaxWaits
                /\ waits' = [w0 EXCEPT ![k][connection] = @ + 1]
           ELSE waits' = w0
        /\ IF joins = {}
           THEN /\ SetSup(S1)
                /\ UNCHANGED <<calls, contended>>
                /\ last' = Step("TransportChange", h, 0, 0, 0, FALSE)
           ELSE LET c == Lowest(joins)
                IN /\ Return(IF S1.connection = Null THEN S1 ELSE AttachObserver(S1), c)
                   /\ last' = Step("TransportChange", h, 1, c, 0, contended)
  /\ UNCHANGED <<ledgerVars, presenceVars, ledgerHist, bootpc>>

\* a suspended handler's entersState rejects (timeout): its catch block
WaitTimeout(k, x) ==
  /\ waits[k][x] > 0
  /\ waits' = [waits EXCEPT ![k][x] = @ - 1]
  /\ SetSup(Teardown(Sup))
  /\ last' = Step("WaitTimeout", x, 0, 0, Cardinality(PendingTimers(timers)), k = "ready")
  /\ UNCHANGED <<ledgerVars, presenceVars, ledgerHist, vcHist, calls, bootpc>>

\* player.on('error', (err) => console.error('[Player] Error:', err))
PlayerErrorRebuilds(S) == ScheduleRebuild(S, RebuildDelay)
PlayerErrorHandler(S) == S

\* the player made with handle p emits 'error': its listener runs if the
\* invocation that made it got as far as attaching one; an 'error' nobody
\* listens to is thrown and ends in the process' uncaughtException handler,
\* which logs
PlayerError(p) ==
  /\ hstatus[p] # "unborn"
  /\ SetSup(IF hlisteners[p] > 0 THEN PlayerErrorHandler(Sup) ELSE Sup)
  /\ last' = Step("PlayerError", p, 0, 0, 0, hlisteners[p] > 0)
  /\ UNCHANGED <<ledgerVars, presenceVars, ledgerHist, vcHist, calls, waits, bootpc>>

\* ------------------------------------------------- VoiceStateUpdate handler

\* wasIn && nowIn && oldState.channelId !== newState.channelId:
\* endSession(userId, when); startSession(userId, when)
MoveBranchNoRestart(db, g, u, when, ef, sf) ==
  LET e == EndSession(db, u, when, ef)
  IN [db |-> e.db, hist |-> IF e.threw THEN g ELSE HistEnd(g, u, when),
      ret |-> e.ret, threw |-> e.threw]
MoveBranch(db, g, u, when, ef, sf) ==
  LET e == EndSession(db, u, when, ef)
      g1 == HistEnd(g, u, when)
  IN IF e.threw THEN [db |-> e.db, hist |-> g, ret |-> 0, threw |-> TRUE]
     ELSE [db |-> StartSession(e.db, u, when, sf),
           hist |-> IF sf THEN g1 ELSE HistStart(g1, u, when),
           ret |-> e.ret, threw |-> sf]

\* the branch for everyone except the bot
HumanBranch(db, g, u, old, new, when, ef, sf) ==
  LET wasIn == old # NoChannel
      nowIn == new # NoChannel
  IN IF ~wasIn /\ nowIn
     THEN [db |-> StartSession(db, u, when, sf),
           hist |-> IF sf THEN g ELSE HistStart(g, u, when), ret |-> 0, threw |-> sf]
     ELSE IF wasIn /\ ~nowIn
     THEN LET e == EndSession(db, u, when, ef)
          IN [db |-> e.db, hist |-> IF e.threw THEN g ELSE HistEnd(g, u, when),
              ret |-> e.ret, threw |-> e.threw]
     ELSE IF wasIn /\ nowIn /\ old # new
     THEN MoveBranch(db, g, u, when, ef, sf)
     ELSE [db |-> db, hist |-> g, ret |-> 0, threw |-> FALSE]

\* the branch for the bot: if (!nowInTarget) debounce a rejoin
BotBranchBackoff(S, new) ==
  IF new # VOICE_CHANNEL_ID THEN ScheduleRebuild(S, RebuildDelay) ELSE S
BotBranch(S, new) ==
  IF new # VOICE_CHANNEL_ID THEN ScheduleRebuild(S, DisplaceDelay) ELSE S

\* client.on(VoiceStateUpdate): member u is reported to have moved from the
\* channel it was in to channel new (the handler reads only the new channel
\* of the bot, so the bot's place is not kept)
VoiceStateUpdate(u, new, ef, sf) ==
  /\ IF u # Bot
     THEN LET old == chan[u] r == HumanBranch(TheDb, Hist, u, old, new, now, ef, sf)
              joined == old = NoChannel /\ new # NoChannel
          IN /\ chan' = [chan EXCEPT ![u] = new]
             /\ sessions' = r.db.sessions
             /\ user_hours' = r.db.user_hours
             /\ ledgerOpen' = r.hist.open
             /\ ledgerSum' = r.hist.sum
             /\ ledgerClosed' = r.hist.closed
             /\ presentSince' = [presentSince EXCEPT ![u] = IF joined THEN now ELSE @]
             /\ totalAtJoin' = [totalAtJoin EXCEPT ![u] =
                   IF joined THEN TotalMs(user_hours, u) ELSE @]
             /\ last' = EndStep(Step("VoiceStateUpdate", u, new, old, r.ret, r.threw),
                                IF old # NoChannel /\ old # new
                                THEN StartedAt(sessions, u) ELSE NoTime)
             /\ UNCHANGED <<connection, player, connectLock, reconnectTimer, timers,
                            hstatus, hlisteners, nowInTarget>>
     ELSE /\ SetSup(BotBranch(Sup, new))
          /\ nowInTarget' = (new = VOICE_CHANNEL_ID)
          /\ last' = Step("VoiceStateUpdate", u, new,
                           IF reconnectTimer = Null THEN 0 ELSE timers[reconnectTimer],
                           0, FALSE)
          /\ UNCHANGED <<ledgerVars, chan, ledgerOpen, ledgerSum, ledgerClosed,
                         presentSince, totalAtJoin>>
  /\ UNCHANGED <<now, attended, calls, waits, bootpc, opCount, vcHist>>

\* member u moves to channel c while the client is not yet logged in: no
\* VoiceStateUpdate is delivered for it
Unseen(u, c) ==
  /\ bootpc = "login"
  /\ c # chan[u]
  /\ chan' = [chan EXCEPT ![u] = c]
  /\ last' = Step("Unseen", u, c, chan[u], 0, FALSE)
  /\ UNCHANGED <<ledgerVars, now, nowInTarget, attended, vcVars, ledgerHist, vcHist>>

\* time passes
Tick ==
  /\ now < MaxTime
  /\ now' = now + 1
  /\ attended' = [u \in Users |-> IF chan[u] # NoChannel THEN attended[u] + 1 ELSE attended[u]]
  /\ last' = Step("Tick", 0, 0, 0, 0, FALSE)
  /\ UNCHANGED <<ledgerVars, chan, nowInTarget, vcVars, ledgerHist, vcHist>>

\* ---------------------------------------------------------- specifications

\* the process starts over a durable store holding sess and hours, with the
\* members in the channels given by where
Boot(sess, hours, where) ==
  /\ sessions = sess
  /\ user_hours = hours
  /\ chan = where
  /\ now = 0
  /\ nowInTarget = FALSE
  /\ attended = [u \in Users |-> 0]
  /\ connection = Null
  /\ player = Null
  /\ connectLock = FALSE
  /\ reconnectTimer = Null
  /\ timers = [t \in TimerIds |-> 0]
  /\ hstatus = [h \in Handles |-> "unborn"]
  /\ hlisteners = [h \in Handles |-> 0]
  /\ calls = [c \in CallIds |-> IdleCall]
  /\ waits = [k \in WaitKinds |-> [x \in Targets |-> 0]]
  /\ bootpc = "login"
  /\ ledgerOpen = [u \in Users |-> StartedAt(sess, u)]
  /\ ledgerSum = [u \in Users |-> TotalMs(hours, u)]
  /\ ledgerClosed = [u \in Users |-> HourRows(hours, u) # {}]
  /\ presentSince = [u \in Users |-> NoTime]
  /\ totalAtJoin = [u \in Users |-> 0]
  /\ opCount = 0
  /\ contended = FALSE
  /\ last = Step("Init", 0, 0, 0, 0, FALSE)

Nowhere == [u \in Users |-> NoChannel]

\* a first start: an empty store, nobody in a voice channel
Init == Boot({}, {}, Nowhere)

\* user_hours tables to rank: up to MaxRanked participants of distinct totals,
\* and every table of the tracked users, equal totals included
RankedTables ==
  {{[user_id |-> i, total_ms |-> (i * 7) % (MaxRanked + 2)] : i \in 1..n} : n \in 0..MaxRanked}
RecordTables ==
  UNION {{{[user_id |-> u, total_ms |-> f[u]] : u \in D} : f \in [D -> Times]} : D \in SUBSET Users}

InitBoard == \E hours \in RankedTables \cup RecordTables : Boot({}, hours, Nowhere)

\* leaderboard requests
BoardNext == \E limit \in Limits : RenderLeaderboard(limit)

\* the ledger functions under arbitrary calls
LedgerNext ==
  \/ \E u \in Users, when \in Times, f \in BOOLEAN : StartSessionCall(u, when, f)
  \/ \E u \in Users, when \in Times, f \in FaultPoints : EndSessionCall(u, when, f)

\* the movement events of the human members that move, delivered in order,
\* and the clock
TrackerNext ==
  \/ Tick
  \/ \E u \in Movers, c \in Places : VoiceStateUpdate(u, c, 0, FALSE)

\* the same events over a store whose statements can fail: a throw leaves the
\* handler at once, the uncaughtException listener logs it, and the process
\* goes on to the next event
FaultyNext ==
  \/ Tick
  \/ \E c \in Places, ef \in FaultPoints, sf \in BOOLEAN :
       VoiceStateUpdate(Walker, c, ef, sf)

\* the steps of startup and of the connection supervisor whose inputs are the
\* same whether or not the guild and the channel resolve
SupervisorSteps ==
  \/ ClientReady
  \/ CommandsRegistered(TRUE)
  \/ SeedGuildFetched(TRUE)
  \/ \E botIn \in BOOLEAN : SeedChannelsFetched(TRUE, botIn)
  \/ \E t \in TimerIds : TimerFire(t)
  \/ \E c \in CallIds : ReadyTimeout(c)
  \/ \E h \in Handles, s \in LiveStatus \cup {"destroyed"} : TransportChange(h, s)
  \/ \E k \in WaitKinds, x \in Targets : WaitTimeout(k, x)
  \/ bootpc # "login" /\ \E c \in Places : VoiceStateUpdate(Bot, c, 0, FALSE)

\* startup, the connection supervisor and the movement events of the bot
SupervisorNext ==
  \/ SupervisorSteps
  \/ SeedGuildFetched(FALSE)
  \/ \E c \in CallIds, ok \in BOOLEAN : GuildFetched(c, ok)
  \/ \E c \in CallIds, ok \in BOOLEAN : ChannelFetched(c, ok)
  \/ \E c \in CallIds : JoinThrows(c)

\* the same with a guild and a channel that resolve
ResolvableNext ==
  \/ SupervisorSteps
  \/ \E c \in CallIds : GuildFetched(c, TRUE)
  \/ \E c \in CallIds : ChannelFetched(c, TRUE)

\* a restart: the store holds what earlier runs left (a session row for a
\* member that was in voice when the process died, with the clock of that
\* run, and a record of closed sessions), and members are in the target
\* channel already
StaleSessions ==
  {{}} \cup {{[user_id |-> Walker, started_at |-> t]} : t \in Times}
StaleHours ==
  {{}, {[user_id |-> Walker, total_ms |-> MaxTime]}}
Present == [Users -> {NoChannel, VOICE_CHANNEL_ID}]

InitRestart ==
  \E sess \in StaleSessions, hours \in StaleHours, where \in Present :
    Boot(sess, hours, where)

\* the steps of the ClientReady handler, with a guild that resolves; the
\* connectToVC it ends with is followed no further than its first await
StartupSteps ==
  \/ ClientReady
  \/ CommandsRegistered(TRUE)
  \/ SeedGuildFetched(TRUE)
  \/ \E botIn \in BOOLEAN : SeedChannelsFetched(TRUE, botIn)

\* startup after a restart, among the movement events of a member, delivered
\* in order, and the clock
RestartNext ==
  \/ StartupSteps
  \/ Tick
  \/ \E c \in Places : VoiceStateUpdate(Walker, c, 0, FALSE)

\* startup after a restart, among the movement events of the bot, the
\* rebuild timer they set, and the clock
StartupNext ==
  \/ StartupSteps
  \/ Tick
  \/ bootpc # "login" /\ \E c \in Places : VoiceStateUpdate(Bot, c, 0, FALSE)
  \/ \E t \in TimerIds : TimerFire(t)

\* a restart over a store that holds at most a session row started at the
\* time the earlier run ended, and no record: the member moves unseen while
\* the process is down, then startup (seeding may be skipped) among the
\* member's movement events, delivered in order
InitDowntime ==
  \E sess \in {ss \in StaleSessions : \A r \in ss : r.started_at = 0}, where \in Present :
    Boot(sess, {}, where)

DowntimeNext ==
  \/ StartupSteps
  \/ SeedGuildFetched(FALSE)
  \/ Tick
  \/ \E c \in Places : Unseen(Walker, c)
  \/ bootpc # "login" /\ \E c \in Places : VoiceStateUpdate(Walker, c, 0, FALSE)

\* the supervisor with a resolvable guild and channel, and errors of the players
PlayerNext ==
  \/ ResolvableNext
  \/ \E p \in Handles : PlayerError(p)

Next == SupervisorNext \/ TrackerNext \/ PlayerNext \/ DowntimeNext

SpecLedger == Init /\ [][LedgerNext]_vars
SpecBoard == InitBoard /\ [][BoardNext]_vars
SpecRestart == InitRestart /\ [][RestartNext]_vars
SpecDowntime == InitDowntime /\ [][DowntimeNext]_vars
SpecStartup == InitRestart /\ [][StartupNext]_vars
SpecTracker == Init /\ [][TrackerNext]_vars
SpecFaulty == Init /\ [][FaultyNext]_vars
SpecPlayer == Init /\ [][PlayerNext]_vars
\* the supervisor with a resolvable guild and channel under the scheduling of
\* the runtime: a handler that can run does run, a fetch settles, a timeout
\* that is due fires, and a handle that can become Ready does so unless
\* something else happens to it first
Fairness ==
  /\ WF_vars(ClientReady)
  /\ WF_vars(CommandsRegistered(TRUE))
  /\ WF_vars(SeedGuildFetched(TRUE))
  /\ WF_vars(\E botIn \in BOOLEAN : SeedChannelsFetched(TRUE, botIn))
  /\ WF_vars(\E c \in CallIds : GuildFetched(c, TRUE))
  /\ WF_vars(\E c \in CallIds : ChannelFetched(c, TRUE))
  /\ WF_vars(\E t \in TimerIds : TimerFire(t))
  /\ WF_vars(\E c \in CallIds : ReadyTimeout(c))
  /\ WF_vars(\E k \in WaitKinds, x \in Targets : WaitTimeout(k, x))
  /\ WF_vars(\E h \in Handles : TransportChange(h, "ready"))

SpecFair == Init /\ [][ResolvableNext]_vars /\ Fairness
\* the supervisor while the transport has no fault: a joining handle goes on
\* to Connecting and Ready and a Ready handle stays Ready, with the movement
\* events of the bot
QuietNext ==
  \/ ClientReady
  \/ CommandsRegistered(TRUE)
  \/ SeedGuildFetched(TRUE)
  \/ \E botIn \in BOOLEAN : SeedChannelsFetched(TRUE, botIn)
  \/ \E t \in TimerIds : TimerFire(t)
  \/ \E c \in CallIds : GuildFetched(c, TRUE)
  \/ \E c \in CallIds : ChannelFetched(c, TRUE)
  \/ \E h \in Handles, s \in {"connecting", "ready"} :
        hstatus[h] \in {"signalling", "connecting"} /\ TransportChange(h, s)
  \/ bootpc # "login" /\ \E c \in Places : VoiceStateUpdate(Bot, c, 0, FALSE)

QuietFairness ==
  /\ WF_vars(ClientReady)
  /\ WF_vars(CommandsRegistered(TRUE))
  /\ WF_vars(SeedGuildFetched(TRUE))
  /\ WF_vars(\E botIn \in BOOLEAN : SeedChannelsFetched(TRUE, botIn))
  /\ WF_vars(\E c \in CallIds : GuildFetched(c, TRUE))
  /\ WF_vars(\E c \in CallIds : ChannelFetched(c, TRUE))
  /\ WF_vars(\E t \in TimerIds : TimerFire(t))
  /\ WF_vars(\E h \in Handles : TransportChange(h, "ready"))

SpecQuiet == Init /\ [][QuietNext]_vars /\ QuietFairness
SpecSupervisor == Init /\ [][SupervisorNext]_vars
SpecResolvable == Init /\ [][ResolvableNext]_vars
Spec == Init /\ [][Next]_vars

\* ================================================================ claims

\* a step that called connectToVC()
Invoked(l) ==
  \/ l.kind = "TimerFire"
  \/ l.kind = "SeedGuildFetched" /\ ~l.flag
  \/ l.kind = "SeedChannelsFetched" /\ l.flag

\* a step in which a connectToVC that waited for Ready ran to its end
Promoted(l) == l.kind = "TransportChange" /\ l.arg = 1

\* C1: connectToVC invoked while an earlier invocation is suspended at an await
\* returns at once: it creates no handle, starts no invocation and leaves the
\* lock held; and when a join reaches Ready, connection is that one live
\* handle, it is Ready, and exactly one stateChange observer is attached to it.
SingleFlightJoin ==
  [][ /\ (Invoked(last') /\ InFlight # {}) =>
           /\ hstatus' = hstatus
           /\ hlisteners' = hlisteners
           /\ calls' = calls
           /\ connection' = connection
           /\ connectLock'
      /\ Promoted(last') =>
           /\ connection' = last'.id
           /\ hstatus'[connection'] = "ready"
           /\ LiveHandles(hstatus') = {connection'}
           /\ hlisteners'[connection'] = 1
           /\ \A h \in Handles \ {connection'} : hstatus'[h] \in {"unborn", "destroyed"}
    ]_vars

\* C1 witness: a join reached Ready after an invocation was turned away while
\* it was suspended.
SingleFlightJoinWitness ==
  /\ Promoted(last)
  /\ last.flag
  /\ connection # Null
  /\ hlisteners[connection] = 1

\* C2: at most one handle is live (not destroyed) in every state, it is the one
\* connection refers to, and a handle is created only when connection is null
\* or refers to a destroyed handle.
OneLiveHandle ==
  /\ [](/\ Cardinality(LiveHandles(hstatus)) <= 1
        /\ LiveHandles(hstatus) \subseteq {connection})
  /\ [][ (\E h \in Handles : hstatus[h] = "unborn" /\ hstatus'[h] # "unborn") =>
           (connection = Null \/ hstatus[connection] = "destroyed") ]_vars

\* C2 witness: after a failure path destroyed the first handle, a second join
\* is under way on a new handle, the only live one.
OneLiveHandleWitness ==
  /\ connection = 2
  /\ hstatus[1] = "destroyed"
  /\ hstatus[2] \in LiveStatus
  /\ waits["ready"][1] > 0

\* C3: at most one rebuild timer is pending in every state, and it is the one
\* reconnectTimer refers to; so when a timer fires and invokes connectToVC no
\* other timer is left pending.
DebouncedRebuild ==
  /\ [](/\ Cardinality(PendingTimers(timers)) <= 1
        /\ PendingTimers(timers) \subseteq {reconnectTimer})
  /\ [][ last'.kind = "TimerFire" => PendingTimers(timers') = {} ]_vars

\* C3 witness: a rebuild trigger (a handler's wait timing out) found a timer
\* pending and left exactly one pending.
DebouncedRebuildWitness ==
  /\ last.kind = "WaitTimeout"
  /\ last.ret = 1
  /\ Cardinality(PendingTimers(timers)) = 1
  /\ timers[reconnectTimer] = RebuildDelay

\* C4: when a join does not reach Ready in time, then as connectToVC returns
\* the new handle is destroyed, connection is null, no observer was attached
\* to the handle, and exactly one rebuild timer is pending.
ReadyTimeoutSchedulesRebuild ==
  last.kind = "ReadyTimeout" =>
    /\ hstatus[last.arg] = "destroyed"
    /\ connection = Null
    /\ hlisteners[last.arg] = 0
    /\ Cardinality(PendingTimers(timers)) = 1

\* C5: with the guild and the channel resolvable, once the startup handler has
\* called connectToVC there is always a live connection, a connectToVC in
\* flight or a pending rebuild timer.
AlwaysRecovering ==
  bootpc = "running" =>
    \/ LiveHandles(hstatus) # {}
    \/ InFlight # {}
    \/ PendingTimers(timers) # {}

\* C6: total_ms of every participant equals the sum of the floored lengths of
\* the sessions its endSession calls closed, and no Active Session is left
\* once the last session is closed.
TotalIsSumOfSessions ==
  \A u \in Users :
    /\ TotalMs(user_hours, u) = ledgerSum[u]
    /\ ledgerOpen[u] = NoTime => SessionRows(sessions, u) = {}

\* C6 witness: an endSession closed a session of positive length for a
\* participant that had closed sessions before, and no Active Session is left.
TotalIsSumOfSessionsWitness ==
  /\ last.kind = "endSession"
  /\ ~last.flag
  /\ last.ret > 0
  /\ TotalMs(user_hours, last.id) > last.ret
  /\ SessionRows(sessions, last.id) = {}

\* C7: endSession for a participant with no Active Session returns 0 and
\* leaves the sessions and user_hours tables as they were.
EndWithoutSessionIsNoop ==
  [][ (last'.kind = "endSession" /\ SessionRows(sessions, last'.id) = {}) =>
        /\ sessions' = sessions
        /\ user_hours' = user_hours
        /\ last'.ret = 0 ]_vars

\* C7 witness: an endSession returned 0 for a participant with no Active
\* Session and no record, while another participant has rows.
EndWithoutSessionIsNoopWitness ==
  /\ last.kind = "endSession"
  /\ ~last.flag
  /\ last.ret = 0
  /\ SessionRows(sessions, last.id) = {}
  /\ HourRows(user_hours, last.id) = {}
  /\ sessions # {}
  /\ user_hours # {}

\* C8: each participant has at most one Active Session in every state, and a
\* startSession for a participant that has one overwrites started_at with the
\* call's time, changes no total_ms and leaves exactly one Active Session.
OneActiveSession ==
  /\ [](\A u \in Users : Cardinality(SessionRows(sessions, u)) <= 1)
  /\ [][ (last'.kind = "startSession" /\ ~last'.flag
            /\ SessionRows(sessions, last'.id) # {}) =>
           /\ SessionRows(sessions', last'.id) =
                {[user_id |-> last'.id, started_at |-> last'.arg]}
           /\ user_hours' = user_hours ]_vars

\* C8 witness: a startSession found an Active Session of the participant and
\* left one row, whose started_at is the call's time.
OneActiveSessionWitness ==
  /\ last.kind = "startSession"
  /\ ~last.flag
  /\ last.arg2 = 1
  /\ last.arg > 0
  /\ SessionRows(sessions, last.id) = {[user_id |-> last.id, started_at |-> last.arg]}

Hop(l) == l.kind = "VoiceStateUpdate" /\ l.id # Bot /\ l.arg # NoChannel
            /\ l.arg2 # NoChannel /\ l.arg # l.arg2
Leave(l) == l.kind = "VoiceStateUpdate" /\ l.id # Bot /\ l.arg = NoChannel
              /\ l.arg2 # NoChannel

\* C9: after a hop the participant has exactly one Active Session, started at
\* the hop's time; and at the leave that follows a join at t0 and any hops,
\* total_ms has grown by exactly the time since t0.
HopContinuity ==
  /\ Hop(last) =>
       SessionRows(sessions, last.id) = {[user_id |-> last.id, started_at |-> now]}
  /\ Leave(last) =>
       /\ TotalMs(user_hours, last.id) =
            totalAtJoin[last.id] + (now - presentSince[last.id])
       /\ SessionRows(sessions, last.id) = {}

\* C9 witness: a leave whose last session is shorter than the presence it
\* ends, so that a hop split the presence into sessions of positive length.
HopContinuityWitness ==
  /\ Leave(last)
  /\ last.ret > 0
  /\ last.ret < now - presentSince[last.id]
  /\ TotalMs(user_hours, last.id) = totalAtJoin[last.id] + (now - presentSince[last.id])

\* C10: whatever fault strikes inside endSession, the tables are left either
\* as they were, or with the session row deleted and its elapsed time added.
EndSessionAtomic ==
  [][ last'.kind = "endSession" =>
        LET u == last'.id
            rows == SessionRows(sessions, u)
        IN \/ /\ sessions' = sessions
              /\ user_hours' = user_hours
           \/ /\ rows # {}
              /\ sessions' = sessions \ rows
              /\ \E r \in rows :
                   user_hours' = (user_hours \ HourRows(user_hours, u)) \cup
                     {[user_id |-> u,
                       total_ms |-> TotalMs(user_hours, u) + Max(0, last'.arg - r.started_at)]}
    ]_vars

\* C10 witness: a fault struck endSession after its delete, or after its add,
\* with elapsed time to add, and the session row is still there.
EndSessionAtomicWitness ==
  /\ last.kind = "endSession"
  /\ last.flag
  /\ last.arg2 \in {2, 3}
  /\ \E r \in SessionRows(sessions, last.id) : r.started_at < last.arg

\* C11: the rows renderLeaderboard draws are rows of user_hours ordered by
\* total_ms descending, no row of user_hours outranks them, and their number is
\* the requested limit clamped into 1..20, or the size of the table if smaller.
LeaderboardTop ==
  last.kind = "renderLeaderboard" =>
    LET q == last.ret
        limit == IF last.arg < 1 THEN 1 ELSE IF last.arg > 20 THEN 20 ELSE last.arg
        drawn == {q[i] : i \in 1..Len(q)}
    IN /\ Len(q) = Min(limit, Cardinality(user_hours))
       /\ drawn \subseteq user_hours
       /\ Cardinality(drawn) = Len(q)
       /\ \A i, j \in 1..Len(q) : i < j => q[i].total_ms >= q[j].total_ms
       /\ \A r \in user_hours \ drawn : \A d \in drawn : d.total_ms >= r.total_ms

\* C11 witness: a request above 20 over a table of more than 20 records drew
\* 20 rows.
LeaderboardTopWitness ==
  /\ last.kind = "renderLeaderboard"
  /\ last.arg > 20
  /\ Cardinality(user_hours) > 20
  /\ Len(last.ret) = 20

\* C12: no handle ever has more than one stateChange observer, and when a
\* connect succeeds (the first or one after a rebuild) the authoritative
\* connection has exactly one.
OneObserver ==
  /\ [](\A h \in Handles : hlisteners[h] <= 1)
  /\ [][ Promoted(last') =>
           /\ connection' \in Handles
           /\ hlisteners'[connection'] = 1 ]_vars

\* C12 witness: a connect succeeded on a second handle, after the first one
\* had been promoted and then rebuilt; the new connection has one observer.
OneObserverWitness ==
  /\ Promoted(last)
  /\ connection = 2
  /\ hlisteners[1] = 1
  /\ hstatus[1] = "destroyed"
  /\ hlisteners[2] = 1

\* handles that were the value of connection and no longer are
Superseded == {h \in Handles : hstatus[h] # "unborn" /\ connection # h}

\* C13: every handle that stopped being the value of connection has been
\* destroyed and has no stateChange observer attached, and connection is never
\* set to a handle that was its value before.
SupersededReleased ==
  /\ [](\A h \in Superseded : hstatus[h] = "destroyed" /\ hlisteners[h] = 0)
  /\ [][ \A h \in Handles :
           (connection' = h /\ connection # h) => hstatus[h] = "unborn" ]_vars

\* C14: when the guild or the voice channel does not resolve, connectToVC
\* returns having created no handle and no player, with connection and the
\* rebuild timer as they were, and with the lock released.
ConfigErrorAborts ==
  [][ (last'.kind \in {"GuildFetched", "ChannelFetched"} /\ ~last'.flag) =>
        /\ hstatus' = hstatus
        /\ hlisteners' = hlisteners
        /\ player' = player
        /\ connection' = connection
        /\ timers' = timers
        /\ reconnectTimer' = reconnectTimer
        /\ ~connectLock'
        /\ calls'[last'.id] = IdleCall ]_vars

\* C14 witness: the channel did not resolve, and connectToVC returned leaving
\* no connection, no invocation in flight and no rebuild timer.
ConfigErrorAbortsWitness ==
  /\ last.kind = "ChannelFetched"
  /\ ~last.flag
  /\ ~connectLock
  /\ connection = Null
  /\ InFlight = {}
  /\ PendingTimers(timers) = {}

\* C15: when connectToVC, with the guild and the channel resolved, finds
\* connection referring to a handle that is not destroyed, it returns having
\* created no handle and no player and attached no observer, with connection
\* and reconnectTimer as they were, and with the lock released.
IdempotentConnect ==
  [][ ( /\ last'.kind = "ChannelFetched"
        /\ last'.flag
        /\ connection # Null
        /\ hstatus[connection] # "destroyed" ) =>
        /\ hstatus' = hstatus
        /\ hlisteners' = hlisteners
        /\ player' = player
        /\ connection' = connection
        /\ reconnectTimer' = reconnectTimer
        /\ timers' = timers
        /\ ~connectLock'
        /\ calls'[last'.id] = IdleCall ]_vars

\* C15 witness: a connectToVC found the connection Disconnected, not
\* destroyed, and returned without a join.
IdempotentConnectWitness ==
  /\ last.kind = "ChannelFetched"
  /\ last.flag
  /\ last.arg = Null
  /\ connection # Null
  /\ hstatus[connection] = "disconnected"
  /\ hlisteners[connection] = 1
  /\ ~connectLock

\* C16: a movement event of the bot whose new channel is not the target
\* channel (another channel, or none) leaves exactly one rebuild timer pending,
\* the one reconnectTimer refers to, set to 3 s, which is less than the
\* failure backoff; an event whose new channel is the target channel leaves
\* connection, connectLock, reconnectTimer and the timers unchanged.
DisplacementDebounce ==
  [][ (last'.kind = "VoiceStateUpdate" /\ last'.id = Bot) =>
        IF last'.arg # VOICE_CHANNEL_ID
        THEN /\ reconnectTimer' \in TimerIds
             /\ PendingTimers(timers') = {reconnectTimer'}
             /\ timers'[reconnectTimer'] = 3000
             /\ 3000 < RebuildDelay
        ELSE /\ connection' = connection
             /\ connectLock' = connectLock
             /\ reconnectTimer' = reconnectTimer
             /\ timers' = timers ]_vars

\* C16 witness: the bot was reported outside every channel while a 5 s rebuild
\* timer was pending, and one timer of 3 s is pending now.
DisplacementDebounceWitness ==
  /\ last.kind = "VoiceStateUpdate"
  /\ last.id = Bot
  /\ last.arg = NoChannel
  /\ last.arg2 = RebuildDelay
  /\ Cardinality(PendingTimers(timers)) = 1
  /\ timers[reconnectTimer] = DisplaceDelay

\* a step in which endSession ran for a member
Ended(l) ==
  \/ l.kind = "endSession"
  \/ l.kind = "VoiceStateUpdate" /\ l.id # Bot /\ l.arg2 # NoChannel /\ l.arg # l.arg2

\* C17: every total_ms is non-negative in every state; no step (seeding, a
\* movement event, a ledger call) removes a record or lowers a total_ms; and an
\* endSession whose time is earlier than the started_at it finds leaves the
\* total_ms as it was.
TotalMonotone ==
  /\ [](\A r \in user_hours : r.total_ms >= 0)
  /\ [][ \A u \in Users :
           /\ HourRows(user_hours, u) # {} => HourRows(user_hours', u) # {}
           /\ TotalMs(user_hours', u) >= TotalMs(user_hours, u) ]_vars
  /\ [][ ( /\ Ended(last')
           /\ last'.found # NoTime
           /\ (IF last'.kind = "endSession" THEN last'.arg ELSE now) < last'.found ) =>
           TotalMs(user_hours', last'.id) = TotalMs(user_hours, last'.id) ]_vars

\* C17 witness: a member left at a time earlier than the started_at of the
\* session an earlier run had left, and the total of its record is unchanged.
TotalMonotoneWitness ==
  /\ Leave(last)
  /\ ~last.flag
  /\ last.found > now
  /\ SessionRows(sessions, last.id) = {}
  /\ TotalMs(user_hours, last.id) = MaxTime

\* C18: in every state a participant has a user_hours record if and only if
\* an endSession has found and closed an Active Session of that participant;
\* an endSession that closes a session leaves a record, also when no time
\* elapsed; and every other step (startSession, seeding, an endSession that
\* finds no session) leaves user_hours as it was.
RecordIffClosed ==
  /\ [](\A u \in Users : HourRows(user_hours, u) # {} <=> ledgerClosed[u])
  /\ [][ (Ended(last') /\ ~last'.flag /\ last'.found # NoTime) =>
           HourRows(user_hours', last'.id) # {} ]_vars
  /\ [][ ~(Ended(last') /\ last'.found # NoTime) => user_hours' = user_hours ]_vars

\* C18 witness: a member left at the very time its session had started, and
\* has a record of total 0; the seeded member that has not left has none.
RecordIffClosedWitness ==
  /\ Leave(last)
  /\ last.found = now
  /\ last.ret = 0
  /\ user_hours = {[user_id |-> last.id, total_ms |-> 0]}
  /\ bootpc = "running"
  /\ \E u \in Users : SessionRows(sessions, u) # {} /\ HourRows(user_hours, u) = {}

\* C19: once startup seeding has completed, after any movement events
\* delivered in order, a member has an Active Session row if and only if it is
\* in a voice channel, whatever session rows the store held when the process
\* started.
SessionIffPresent ==
  bootpc = "running" =>
    \A u \in Users : SessionRows(sessions, u) # {} <=> chan[u] # NoChannel

\* the step that completes seeding leaves every member that is in a voice
\* channel with one Active Session started at the seeding time, the bot with
\* none, the rows of the other members and every total_ms as they were
SeedingStep ==
  (last'.kind = "SeedChannelsFetched" /\ last'.flag) =>
    /\ \A u \in Users :
         IF chan[u] # NoChannel
         THEN SessionRows(sessions', u) = {[user_id |-> u, started_at |-> now]}
         ELSE SessionRows(sessions', u) = SessionRows(sessions, u)
    /\ SessionRows(sessions', Bot) = {}
    /\ user_hours' = user_hours

\* C20 (as stated): when seeding completes the members present have one
\* Active Session each, started at the seeding time, the bot has none and no
\* total_ms has changed; and no connectToVC is invoked before seeding has
\* finished.
SeedingBeforeAnyConnect ==
  /\ [][SeedingStep]_vars
  /\ [][ Invoked(last') => bootpc' = "running" ]_vars

\* C20 (amended): when seeding completes the members present have one Active
\* Session each, started at the seeding time, the bot has none and no total_ms
\* has changed; and the ClientReady handler invokes connectToVC only in the
\* step that completes seeding (a rebuild timer may invoke it earlier).
SeedingBeforeStartupConnect ==
  /\ [][SeedingStep]_vars
  /\ [][ (Invoked(last') /\ last'.kind # "TimerFire") =>
           /\ last'.kind = "SeedChannelsFetched"
           /\ bootpc = "seedChannels"
           /\ bootpc' = "running" ]_vars
  /\ [][ (bootpc # "running" /\ bootpc' = "running") => Invoked(last') ]_vars

\* C20 witness: seeding completed at a time after the start, with the bot and
\* every member in a voice channel; each member has one session started now,
\* a record of an earlier run is untouched, and the connectToVC of the
\* startup handler is in flight.
SeedingBeforeStartupConnectWitness ==
  /\ last.kind = "SeedChannelsFetched"
  /\ last.flag
  /\ last.arg = 1
  /\ now > 0
  /\ \A u \in Users :
       chan[u] # NoChannel /\ SessionRows(sessions, u) = {[user_id |-> u, started_at |-> now]}
  /\ SessionRows(sessions, Bot) = {}
  /\ user_hours # {}
  /\ reconnectTimer = Null
  /\ InFlight # {}

\* C21: a movement event of a member during which a ledger statement throws
\* leaves connection, player, connectLock and reconnectTimer as they were and
\* leaves the tables as they were before the statement that threw (for a hop:
\* as they were before the event, or as its endSession left them); and the
\* member of such a hop that had an Active Session still has one.
FaultContained ==
  [][ (last'.kind = "VoiceStateUpdate" /\ last'.id # Bot /\ last'.flag) =>
        /\ connection' = connection
        /\ player' = player
        /\ connectLock' = connectLock
        /\ reconnectTimer' = reconnectTimer
        /\ \/ sessions' = sessions /\ user_hours' = user_hours
           \/ /\ Hop(last')
              /\ [sessions |-> sessions', user_hours |-> user_hours'] =
                   EndSession(TheDb, last'.id, now, 0).db
        /\ (Hop(last') /\ SessionRows(sessions, last'.id) # {}) =>
             SessionRows(sessions', last'.id) # {} ]_vars

\* a handle with an observed Disconnected whose re-entry wait is pending
\* changes to Signalling or Connecting
Reentered(h) ==
  /\ last'.kind = "TransportChange"
  /\ last'.id = h
  /\ waits["reentry"][h] > 0
  /\ hstatus'[h] \in {"signalling", "connecting"}

\* C22: when a handle whose Disconnected was observed enters Signalling or
\* Connecting before the re-entry wait times out, the wait ends and the step
\* destroys no handle and leaves connection and the rebuild timer as they
\* were; when the wait times out, the handle is destroyed afterwards,
\* connection is null and exactly one rebuild timer is pending.
QuickReentry ==
  /\ [][ \A h \in Handles : Reentered(h) =>
           /\ waits'["reentry"][h] = 0
           /\ \A g \in Handles : hstatus'[g] = "destroyed" => hstatus[g] = "destroyed"
           /\ connection' = connection
           /\ reconnectTimer' = reconnectTimer
           /\ timers' = timers ]_vars
  /\ [][ (last'.kind = "WaitTimeout" /\ ~last'.flag) =>
           /\ hstatus'[last'.id] = "destroyed"
           /\ connection' = Null
           /\ PendingTimers(timers') = {reconnectTimer'}
           /\ timers'[reconnectTimer'] = RebuildDelay ]_vars

\* C22 witness: the re-entry wait of the Disconnected connection timed out
\* with no timer pending: the handle is destroyed, connection is null and
\* one rebuild timer is pending.
QuickReentryWitness ==
  /\ last.kind = "WaitTimeout"
  /\ ~last.flag
  /\ last.ret = 0
  /\ hstatus[last.id] = "destroyed"
  /\ connection = Null
  /\ Cardinality(PendingTimers(timers)) = 1

\* C23: whenever a handle becomes destroyed, by the transport, by a destroy()
\* of the handler or by the Ready-timeout path of connectToVC, a rebuild timer
\* is pending after the step; and a timer that fires invokes connectToVC.
DestroyedSchedulesRebuild ==
  /\ [][ (\E h \in Handles : hstatus[h] # "destroyed" /\ hstatus'[h] = "destroyed") =>
           PendingTimers(timers') # {} ]_vars
  /\ [][ (\E t \in TimerIds : timers[t] > 0 /\ last'.kind = "TimerFire" /\ last'.id = t) =>
           Invoked(last') ]_vars

\* a handle whose observed Connecting or Signalling is being waited on
\* changes to Ready
BecameReady(h) ==
  /\ last'.kind = "TransportChange"
  /\ last'.id = h
  /\ waits["ready"][h] > 0
  /\ hstatus'[h] = "ready"

\* C24: when the wait for Ready that an observed Connecting or Signalling
\* started times out, the handle is destroyed afterwards, connection is null
\* and exactly one rebuild timer is pending; when the handle becomes Ready
\* before that, the wait ends and the step destroys no handle and leaves
\* connection and the rebuild timer as they were.
StuckTransition ==
  /\ [][ (last'.kind = "WaitTimeout" /\ last'.flag) =>
           /\ hstatus'[last'.id] = "destroyed"
           /\ connection' = Null
           /\ PendingTimers(timers') = {reconnectTimer'}
           /\ timers'[reconnectTimer'] = RebuildDelay ]_vars
  /\ [][ \A h \in Handles : BecameReady(h) =>
           /\ waits'["ready"][h] = 0
           /\ \A g \in Handles : hstatus'[g] = "destroyed" => hstatus[g] = "destroyed"
           /\ connection' = connection
           /\ reconnectTimer' = reconnectTimer
           /\ timers' = timers ]_vars

\* C24 witness: the wait for Ready of the observed connection timed out with
\* the connection still live and no timer pending: the handle is destroyed,
\* connection is null and one rebuild timer is pending.
StuckTransitionWitness ==
  /\ last.kind = "WaitTimeout"
  /\ last.flag
  /\ last.ret = 0
  /\ hstatus[last.id] = "destroyed"
  /\ connection = Null
  /\ Cardinality(PendingTimers(timers)) = 1

\* C25: an error emitted by a player, listened to or not, leaves connection,
\* the status and the observers of every handle, the rebuild timers,
\* reconnectTimer, connectLock and the invocations in flight as they were.
PlayerErrorIsInert ==
  [][ last'.kind = "PlayerError" =>
        /\ connection' = connection
        /\ player' = player
        /\ hstatus' = hstatus
        /\ hlisteners' = hlisteners
        /\ timers' = timers
        /\ reconnectTimer' = reconnectTimer
        /\ connectLock' = connectLock
        /\ calls' = calls
        /\ waits' = waits ]_vars

\* C25 witness: the player of the current, observed connection has emitted
\* an error while an invocation held the lock and a rebuild timer was pending.
PlayerErrorIsInertWitness ==
  /\ last.kind = "PlayerError"
  /\ last.flag
  /\ last.id = connection
  /\ connectLock
  /\ PendingTimers(timers) # {}

\* C26: when the wait of a handler attached to one handle times out while
\* connection is a different handle, the step neither changes the status of
\* that handle nor sets connection to null.
HandlerActsOnOwnHandle ==
  [][ (/\ last'.kind = "WaitTimeout"
       /\ connection # Null
       /\ connection # last'.id) =>
        /\ hstatus'[connection] = hstatus[connection]
        /\ connection' = connection ]_vars

\* a step in which a join attempt or a connection fails: the wait for Ready of
\* connectToVC times out, or the transport takes a handle to Disconnected or
\* Destroyed or out of Ready
Fault ==
  \/ last'.kind = "ReadyTimeout"
  \/ /\ last'.kind = "TransportChange"
     /\ \/ hstatus'[last'.id] \in {"disconnected", "destroyed"}
        \/ hstatus[last'.id] = "ready"

\* connection is a Ready handle
Connected ==
  /\ connection # Null
  /\ hstatus[connection] = "ready"

\* C27: with the guild and the channel resolvable and fair scheduling, in
\* every behaviour with finitely many faults (and handles left to join with)
\* connection is a Ready handle again and again.
EventualPresence ==
  ( /\ <>[][~Fault]_vars
    /\ [](UnbornHandles(hstatus) # {}) ) => []<>Connected

\* the displacement timer has fired and its connectToVC was let in, while the
\* bot is reported outside the target channel and connection is a Ready handle
DisplacedFired ==
  /\ last.kind = "TimerFire"
  /\ last.arg = DisplaceDelay
  /\ ~last.flag
  /\ ~nowInTarget
  /\ Connected

\* a connectToVC invocation has issued a join
Joined == last.kind = "ChannelFetched" /\ last.arg # Null

\* C28: when the displacement timer fires while the bot is reported outside
\* the target channel and connection is still a Ready handle, a join is
\* issued afterwards (unless the bot is reported back in the target channel).
DisplacedRejoins == DisplacedFired ~> (Joined \/ nowInTarget)

\* C29: connectLock is true exactly while an invocation of connectToVC is
\* suspended between taking the lock and returning, and there is at most one;
\* every step in which an invocation returns (guild or channel unresolved,
\* already connected, Ready timeout, Ready reached, exception) leaves the
\* lock false; an invocation made while the lock is held leaves the lock
\* held and the invocation in flight as it was.
LockDiscipline ==
  /\ [](/\ connectLock <=> InFlight # {}
        /\ Cardinality(InFlight) <= 1)
  /\ [][ (\E c \in CallIds : calls[c].pc # "idle" /\ calls'[c].pc = "idle") =>
           ~connectLock' ]_vars
  /\ [][ (Invoked(last') /\ connectLock) =>
           /\ connectLock'
           /\ calls' = calls ]_vars

\* C29 witness: an invocation returned through an exception while an
\* invocation had been turned away by the lock during it, and the lock is free.
LockDisciplineWitness ==
  /\ last.kind = "JoinThrows"
  /\ last.flag
  /\ ~connectLock
  /\ InFlight = {}

\* C30: over a store whose session rows are no later than the clock and
\* that holds no record, the total_ms of every member is at most the time
\* the member has spent in a voice channel, in every state.
NoOverCounting ==
  \A u \in Users : TotalMs(user_hours, u) <= attended[u]

\* C31: in every state the bot has neither a session row nor a user_hours
\* record, whether or not seeding found it in a voice channel; and a movement
\* event about the bot leaves both tables as they were.
BotNeverTracked ==
  /\ [](/\ SessionRows(sessions, Bot) = {}
        /\ HourRows(user_hours, Bot) = {})
  /\ [][ (last'.kind = "VoiceStateUpdate" /\ last'.id = Bot) =>
           /\ sessions' = sessions
           /\ user_hours' = user_hours ]_vars

\* C31 witness: after seeding has run and given a member a session, the bot
\* is reported to have left every channel, and it has no row and no record.
BotNeverTrackedWitness ==
  /\ last.kind = "VoiceStateUpdate"
  /\ last.id = Bot
  /\ last.arg = NoChannel
  /\ bootpc = "running"
  /\ \E u \in Users : SessionRows(sessions, u) = {[user_id |-> u, started_at |-> now]}
  /\ SessionRows(sessions, Bot) = {}
  /\ HourRows(user_hours, Bot) = {}

====
